---- MODULE Spec2Model ----
(***************************************************************************)
(* The bounded crawler of GEN-AI-Heuristics/main.py                        *)
(* (login_and_crawl_all_pages, crawl_all_pages_no_login and               *)
(* navigate_authenticated_site) together with the crawl part of            *)
(* metrics_tracker.MetricsTracker, as a state machine.                     *)
(*                                                                         *)
(* The recursive coroutine crawl(current_url, depth) is an explicit stack  *)
(* of frames, and an action runs from one page operation awaited by the   *)
(* source (navigation, content read, link extraction) to the next.        *)
(* The site is the environment: `site` gives the links of every page,     *)
(* and whether a navigation, a content read or a link extraction fails is  *)
(* chosen when the call is made.  Sessions are run with a MetricsTracker   *)
(* supplied, as the application does (main.py:1005).                       *)
(***************************************************************************)
EXTENDS Integers, Sequences, FiniteSets, TLC

\* ------------------------------------------------------------------ bounds
MaxPagesBound == 4
MaxSeeds == 2

\* ------------------------------------------------------- program constants
max_depth == 2

\* ------------------------------------------------------------------- URLs
\* A URL is what urlparse makes of it: scheme, netloc (authority) and path.
Url(s, n, p) == [scheme |-> s, netloc |-> n, path |-> p]
Netloc(u) == u.netloc

P(p) == Url("https", "site.test", p)
Home == P("/")
A == P("/a")
B == P("/b")
C == P("/c")
D == P("/d")
E == P("/e")
X == Url("https", "ext.test", "/x")
LoginUrl == P("/login")

SeedUrls == {A, X}

\* --------------------------------------------------------------- the site
\* The links of each page, in link-enumeration order.  A page a graph does
\* not list has no links.
Fan == Home :> <<A, B, C, D, E>>
Chain == Home :> <<A>> @@ A :> <<B>> @@ B :> <<C>> @@ C :> <<D>>
Shared == Home :> <<A, C, D>> @@ A :> <<C, D>>
External == Home :> <<X, A>> @@ A :> <<X, B>> @@ LoginUrl :> <<Home>>
Cycle == Home :> <<Home, A, A>> @@ A :> <<Home, B>> @@ B :> <<A>>
           @@ LoginUrl :> <<LoginUrl, Home>>
DeepThenShallow == Home :> <<A, C>> @@ A :> <<B>> @@ B :> <<C>> @@ C :> <<D>>

Sites == {Fan, Chain, Shared, External, Cycle, DeepThenShallow}

LinksOf(g, u) == IF u \in DOMAIN g THEN g[u] ELSE <<>>

Min(a, b) == IF a < b THEN a ELSE b

\* All sequences over S of length 0..n.
SeqsUpTo(S, n) == UNION {[1..k -> S] : k \in 0..n}

\* Texts of the exceptions and error elements of the login steps; one is
\* longer than 50 characters.
ErrorMessages ==
  {"Login failed",
   "Timeout 30000ms exceeded while waiting for the selector to be visible"}

\* Text of the exception of a failed page operation of the crawl.
PageErrors ==
  {"Timeout 120000ms exceeded while waiting for the page to load completely"}

\* str(e)[:50]
Truncate50(s) == SubSeq(s, 1, Min(50, Len(s)))

VARIABLES
  variant,          \* "login" (login_and_crawl_all_pages) or "nologin"
  login_url,        \* login variant: the login page
  url,              \* entry URL: `url` (login) or `start_url` (no login)
  additional_urls,  \* the seed list handed in
  max_pages,        \* the page budget
  base_domain,      \* authority used for scoping
  prescriptive_urls,\* the seed list as crawled
  si,               \* position of the seed loop in prescriptive_urls (1-based)
  pc,               \* position of the session: auth, seeds, entry, close, done
  stack,            \* frames of crawl(), innermost last
  visited_urls,     \* set of URLs
  url_to_content,   \* function URL -> cleaned content
  metrics,          \* MetricsTracker.crawl
  auth,             \* result of navigate_authenticated_site
  site,             \* the site crawled: URL -> links of the page
  attempts,         \* history: one record per invocation of crawl()
  tokens,           \* MetricsTracker.tokens
  time,             \* MetricsTracker.time
  model,            \* MetricsTracker.model
  summaries         \* the summaries of get_summary the caller holds

vars == <<variant, login_url, url, additional_urls, max_pages, base_domain,
          prescriptive_urls, si, pc, stack, visited_urls, url_to_content,
          metrics, auth, site, attempts, tokens, time, model, summaries>>

\* What a crawl leaves alone: its parameters, and the token, time and model
\* fields of the tracker.
config == <<variant, login_url, url, additional_urls, max_pages, site,
            tokens, time, model, summaries>>

\* --------------------------------------------------------- MetricsTracker
\* An unset timestamp.
None == -1

TokenMetrics ==
  [total_input_tokens |-> 0, total_output_tokens |-> 0, api_calls |-> 0]

TimeMetrics == [start_time |-> None, end_time |-> None]

CrawlMetrics(requested) ==
  [pages_requested |-> requested,
   pages_crawled |-> 0,
   pages_skipped |-> 0,
   skip_reasons |-> <<>>,
   crawled_urls |-> <<>>]

record_page_crawled(m, u) ==
  [m EXCEPT !.pages_crawled = @ + 1,
            !.crawled_urls = Append(@, u)]

\* Faulty variant: the bucket is replaced instead of appended to.
record_page_skipped_overwrites(m, u, reason) ==
  [m EXCEPT !.pages_skipped = @ + 1,
            !.skip_reasons = [r \in DOMAIN @ \cup {reason} |->
                                IF r = reason THEN <<u>> ELSE @[r]]]

\* Faulty variant: the URL is appended to every bucket.
record_page_skipped_every_bucket(m, u, reason) ==
  [m EXCEPT !.pages_skipped = @ + 1,
            !.skip_reasons = [r \in DOMAIN @ \cup {reason} |->
                                Append(IF r \in DOMAIN @ THEN @[r] ELSE <<>>,
                                       u)]]

record_page_skipped(m, u, reason) ==
  LET created == IF reason \in DOMAIN m.skip_reasons
                 THEN m.skip_reasons
                 ELSE [r \in DOMAIN m.skip_reasons \cup {reason} |->
                         IF r = reason THEN <<>> ELSE m.skip_reasons[r]]
  IN [m EXCEPT !.pages_skipped = @ + 1,
               !.skip_reasons = [created EXCEPT ![reason] = Append(@, u)]]

\* ------------------------------------------------------------------ crawl
Top == stack[Len(stack)]
Rest == SubSeq(stack, 1, Len(stack) - 1)

\* Faulty variant: the budget test off by one.
BudgetExhaustedOffByOne == Cardinality(DOMAIN url_to_content) > max_pages

\* len(url_to_content) >= max_pages
BudgetExhausted == Cardinality(DOMAIN url_to_content) >= max_pages

\* Faulty variant: no duplicate check.
PolicyDecisionNoDuplicate(u, depth) ==
  IF BudgetExhausted THEN "max_limit_reached"
  ELSE IF depth > max_depth THEN "max_depth_exceeded"
  ELSE IF Netloc(u) # base_domain THEN "domain_mismatch"
  ELSE "visit"

\* Faulty variant: the depth check ahead of the duplicate check.
PolicyDecisionDepthFirst(u, depth) ==
  IF BudgetExhausted THEN "max_limit_reached"
  ELSE IF depth > max_depth THEN "max_depth_exceeded"
  ELSE IF u \in visited_urls THEN "duplicate"
  ELSE IF Netloc(u) # base_domain THEN "domain_mismatch"
  ELSE "visit"

\* Faulty variant: the depth check off by one.
PolicyDecisionDepthOffByOne(u, depth) ==
  IF BudgetExhausted THEN "max_limit_reached"
  ELSE IF u \in visited_urls THEN "duplicate"
  ELSE IF depth > max_depth + 1 THEN "max_depth_exceeded"
  ELSE IF Netloc(u) # base_domain THEN "domain_mismatch"
  ELSE "visit"

\* The four checks at the head of crawl(), in the order of the source.
PolicyDecision(u, depth) ==
  IF BudgetExhausted THEN "max_limit_reached"
  ELSE IF u \in visited_urls THEN "duplicate"
  ELSE IF depth > max_depth THEN "max_depth_exceeded"
  ELSE IF Netloc(u) # base_domain THEN "domain_mismatch"
  ELSE "visit"

\* The filter of the link loop.
LinkFilter(link) ==
  /\ Netloc(link) = base_domain
  /\ link.scheme \notin {"mailto", "javascript"}

\* Faulty variant: a URL that passes the checks is not put in visited_urls.
crawlWithoutMarking(u, depth, below) ==
  LET d == PolicyDecision(u, depth)
      a == [url |-> u, depth |-> depth,
            full |-> BudgetExhausted,
            seen |-> u \in visited_urls,
            added |-> d = "visit",
            nav |-> "none",
            links |-> "none",
            recs |-> IF d = "visit" THEN <<>> ELSE <<d>>,
            returned |-> d # "visit",
            parent |-> IF below = <<>> THEN 0 ELSE below[Len(below)].id]
  IN /\ attempts' = Append(attempts, a)
     /\ UNCHANGED visited_urls
     /\ IF d = "visit"
        THEN /\ stack' = Append(below, [url |-> u, depth |-> depth,
                                        pc |-> "goto", links |-> <<>>, i |-> 1,
                                        id |-> Len(attempts) + 1])
             /\ UNCHANGED metrics
        ELSE /\ metrics' = record_page_skipped(metrics, u, d)
             /\ stack' = below

\* Faulty variant: a URL that is turned away is put in visited_urls too.
crawlMarksSkipped(u, depth, below) ==
  LET d == PolicyDecision(u, depth)
      a == [url |-> u, depth |-> depth,
            full |-> BudgetExhausted,
            seen |-> u \in visited_urls,
            added |-> d = "visit",
            nav |-> "none",
            links |-> "none",
            recs |-> IF d = "visit" THEN <<>> ELSE <<d>>,
            returned |-> d # "visit",
            parent |-> IF below = <<>> THEN 0 ELSE below[Len(below)].id]
  IN /\ attempts' = Append(attempts, a)
     /\ visited_urls' = visited_urls \cup {u}
     /\ IF d = "visit"
        THEN /\ stack' = Append(below, [url |-> u, depth |-> depth,
                                        pc |-> "goto", links |-> <<>>, i |-> 1,
                                        id |-> Len(attempts) + 1])
             /\ UNCHANGED metrics
        ELSE /\ metrics' = record_page_skipped(metrics, u, d)
             /\ stack' = below

\* A call crawl(u, depth) from a caller whose frames are `below`, run up to
\* its first await: the policy checks, and visited_urls.add on a pass.
crawl(u, depth, below) ==
  LET d == PolicyDecision(u, depth)
      a == [url |-> u, depth |-> depth,
            full |-> BudgetExhausted,
            seen |-> u \in visited_urls,
            added |-> d = "visit",
            nav |-> "none",
            links |-> "none",
            recs |-> IF d = "visit" THEN <<>> ELSE <<d>>,
            returned |-> d # "visit",
            parent |-> IF below = <<>> THEN 0 ELSE below[Len(below)].id]
  IN /\ attempts' = Append(attempts, a)
     /\ IF d = "visit"
        THEN /\ visited_urls' = visited_urls \cup {u}
             /\ stack' = Append(below, [url |-> u, depth |-> depth,
                                        pc |-> "goto", links |-> <<>>, i |-> 1,
                                        id |-> Len(attempts) + 1])
             /\ UNCHANGED metrics
        ELSE /\ metrics' = record_page_skipped(metrics, u, d)
             /\ stack' = below
             /\ UNCHANGED visited_urls

\* The innermost crawl() returns.
Return(recorded) ==
  /\ stack' = Rest
  /\ attempts' = [attempts EXCEPT ![Top.id] =
                    [@ EXCEPT !.recs = @ \o recorded, !.returned = TRUE]]

\* Faulty variant: a failed navigation unwinds every caller as well.
NavigationFailedAbortsCallers(e) ==
  LET reason == "navigation_error: " \o Truncate50(e)
  IN /\ metrics' = record_page_skipped(metrics, Top.url, reason)
     /\ stack' = <<>>
     /\ attempts' = [attempts EXCEPT ![Top.id] =
                       [@ EXCEPT !.nav = "failed",
                                 !.recs = @ \o <<reason>>,
                                 !.returned = TRUE]]

\* except Exception as e (navigation): record navigation_error, return.
NavigationFailed(e) ==
  LET reason == "navigation_error: " \o Truncate50(e)
  IN /\ metrics' = record_page_skipped(metrics, Top.url, reason)
     /\ stack' = Rest
     /\ attempts' = [attempts EXCEPT ![Top.id] =
                       [@ EXCEPT !.nav = "failed",
                                 !.recs = @ \o <<reason>>,
                                 !.returned = TRUE]]

\* await page.goto(current_url); await page.wait_for_timeout(300)
Goto ==
  /\ stack # <<>> /\ Top.pc = "goto"
  /\ \E ok \in BOOLEAN, e \in PageErrors :
       IF ok
       THEN /\ stack' = [stack EXCEPT ![Len(stack)].pc = "content"]
            /\ attempts' = [attempts EXCEPT ![Top.id].nav = "ok"]
            /\ UNCHANGED metrics
       ELSE NavigationFailed(e)
  /\ UNCHANGED <<config, base_domain, prescriptive_urls, si, pc, visited_urls,
                 url_to_content, auth>>

\* Faulty variant: the content is stored and the tracker is not told.
ContentStoredUncounted ==
  /\ url_to_content' =
       [u \in DOMAIN url_to_content \cup {Top.url} |->
          IF u = Top.url THEN "cleaned" ELSE url_to_content[u]]
  /\ UNCHANGED metrics
  /\ stack' = [stack EXCEPT ![Len(stack)].pc = "links"]
  /\ attempts' = [attempts EXCEPT ![Top.id].recs = @ \o <<"Crawled">>]

\* url_to_content[current_url] = cleaned_content; record_page_crawled
ContentStored ==
  /\ url_to_content' =
       [u \in DOMAIN url_to_content \cup {Top.url} |->
          IF u = Top.url THEN "cleaned" ELSE url_to_content[u]]
  /\ metrics' = record_page_crawled(metrics, Top.url)
  /\ stack' = [stack EXCEPT ![Len(stack)].pc = "links"]
  /\ attempts' = [attempts EXCEPT ![Top.id].recs = @ \o <<"Crawled">>]

\* Faulty variant: a content failure that records nothing.
ContentFailedSilently(e) ==
  /\ Return(<<>>)
  /\ UNCHANGED <<url_to_content, metrics>>

\* Faulty variant: after a content failure the links of the page are still
\* read.
ContentFailedReadsLinks(e) ==
  LET reason == "content_error: " \o Truncate50(e)
  IN /\ metrics' = record_page_skipped(metrics, Top.url, reason)
     /\ stack' = [stack EXCEPT ![Len(stack)].pc = "links"]
     /\ attempts' = [attempts EXCEPT ![Top.id].recs = @ \o <<reason>>]
     /\ UNCHANGED url_to_content

\* except Exception as e (content): record content_error, return.
ContentFailed(e) ==
  LET reason == "content_error: " \o Truncate50(e)
  IN /\ metrics' = record_page_skipped(metrics, Top.url, reason)
     /\ Return(<<reason>>)
     /\ UNCHANGED url_to_content

\* content = await page.content(); cleaned_content = clean_html_content(content)
Content ==
  /\ stack # <<>> /\ Top.pc = "content"
  /\ \E ok \in BOOLEAN, e \in PageErrors :
       IF ok THEN ContentStored ELSE ContentFailed(e)
  /\ UNCHANGED <<config, base_domain, prescriptive_urls, si, pc, visited_urls,
                 auth>>

\* Faulty variant: returning without a list of links unwinds every caller.
LinksDoneAbortsCallers(why) ==
  /\ stack' = <<>>
  /\ attempts' = [attempts EXCEPT ![Top.id] =
                    [@ EXCEPT !.links = why, !.returned = TRUE]]

\* crawl() returns without a list of links: the budget is used up, or the
\* extraction threw.
LinksDone(why) ==
  /\ stack' = Rest
  /\ attempts' = [attempts EXCEPT ![Top.id] =
                    [@ EXCEPT !.links = why, !.returned = TRUE]]

\* if len(url_to_content) < max_pages: links = await page.eval_on_selector_all
ExtractLinks ==
  /\ stack # <<>> /\ Top.pc = "links"
  /\ IF BudgetExhausted
     THEN LinksDone("budget")
     ELSE \E ok \in BOOLEAN :
            IF ok
            THEN /\ stack' = [stack EXCEPT ![Len(stack)] =
                                [@ EXCEPT !.pc = "loop",
                                          !.links = LinksOf(site, Top.url),
                                          !.i = 1]]
                 /\ attempts' = [attempts EXCEPT ![Top.id].links = "ok"]
            ELSE LinksDone("failed")
  /\ UNCHANGED <<config, base_domain, prescriptive_urls, si, pc, visited_urls,
                 url_to_content, metrics, auth>>

\* Faulty variant: the link loop does not end when the list is used up.
LinkLoopNeverEnds ==
  /\ stack # <<>> /\ Top.pc = "loop"
  /\ IF Top.i > Len(Top.links) \/ BudgetExhausted
     THEN UNCHANGED <<stack, attempts, visited_urls, metrics>>
     ELSE LET link == Top.links[Top.i]
              caller == [stack EXCEPT ![Len(stack)].i = @ + 1]
          IN IF LinkFilter(link)
             THEN crawl(link, Top.depth + 1, caller)
             ELSE /\ stack' = caller
                  /\ UNCHANGED <<visited_urls, metrics, attempts>>
  /\ UNCHANGED <<config, base_domain, prescriptive_urls, si, pc,
                 url_to_content, auth>>

\* One turn of `for link in links`.
LinkLoop ==
  /\ stack # <<>> /\ Top.pc = "loop"
  /\ IF Top.i > Len(Top.links) \/ BudgetExhausted
     THEN /\ Return(<<>>)
          /\ UNCHANGED <<visited_urls, metrics>>
     ELSE LET link == Top.links[Top.i]
              caller == [stack EXCEPT ![Len(stack)].i = @ + 1]
          IN IF LinkFilter(link)
             THEN crawl(link, Top.depth + 1, caller)
             ELSE /\ stack' = caller
                  /\ UNCHANGED <<visited_urls, metrics, attempts>>
  /\ UNCHANGED <<config, base_domain, prescriptive_urls, si, pc,
                 url_to_content, auth>>

\* ---------------------------------------------------------------- session
\* Faulty variant: the seeds taken from the end of the list.
SeedLoopReversed ==
  /\ pc = "seeds" /\ stack = <<>>
  /\ IF si > Len(prescriptive_urls) \/ BudgetExhausted
     THEN /\ pc' = "entry"
          /\ UNCHANGED <<si, stack, visited_urls, metrics, attempts>>
     ELSE /\ crawl(prescriptive_urls[Len(prescriptive_urls) - si + 1], 0, <<>>)
          /\ si' = si + 1
          /\ UNCHANGED pc
  /\ UNCHANGED <<config, base_domain, prescriptive_urls, url_to_content,
                 auth>>

\* for prescriptive_url in prescriptive_urls
SeedLoop ==
  /\ pc = "seeds" /\ stack = <<>>
  /\ IF si > Len(prescriptive_urls) \/ BudgetExhausted
     THEN /\ pc' = "entry"
          /\ UNCHANGED <<si, stack, visited_urls, metrics, attempts>>
     ELSE /\ crawl(prescriptive_urls[si], 0, <<>>)
          /\ si' = si + 1
          /\ UNCHANGED pc
  /\ UNCHANGED <<config, base_domain, prescriptive_urls, url_to_content,
                 auth>>

\* Faulty variant: the entry URL is crawled without a look at the budget.
EntryCrawlUnguarded ==
  /\ pc = "entry" /\ stack = <<>>
  /\ pc' = "close"
  /\ crawl(url, 0, <<>>)
  /\ UNCHANGED <<config, base_domain, prescriptive_urls, si, url_to_content,
                 auth>>

\* if len(url_to_content) < max_pages: await crawl(url, 0)
EntryCrawl ==
  /\ pc = "entry" /\ stack = <<>>
  /\ pc' = "close"
  /\ IF BudgetExhausted
     THEN UNCHANGED <<stack, visited_urls, metrics, attempts>>
     ELSE crawl(url, 0, <<>>)
  /\ UNCHANGED <<config, base_domain, prescriptive_urls, si, url_to_content,
                 auth>>

\* await browser.close(); return url_to_content
Close ==
  /\ pc = "close" /\ stack = <<>>
  /\ pc' = "done"
  /\ UNCHANGED <<config, base_domain, prescriptive_urls, si, stack,
                 visited_urls, url_to_content, metrics, auth, attempts>>

\* ------------------------------------------------- authentication (login)
\* The value of post_login_url before page.url is read.
NoUrl == Url("", "", "")

\* auth is the returned pair (success, landing_page) with the history of the
\* call: whether a login step threw, where the browser was after the form
\* was submitted, how the navigation to start_url went, and the skips
\* recorded.
NoAuth ==
  [ran |-> FALSE, success |-> FALSE, landing_page |-> LoginUrl, recs |-> <<>>,
   threw |-> FALSE, post_login_url |-> NoUrl, start |-> "none"]

\* Where the browser is after the form is submitted.
PostLoginUrls == {LoginUrl, Home}

\* Faulty variant: a failed authentication that lets the crawl run.
AuthFailedKeepsCrawling(reason, th, post) ==
  /\ metrics' = record_page_skipped(metrics, login_url, reason)
  /\ auth' = [ran |-> TRUE, success |-> FALSE, landing_page |-> login_url,
              recs |-> <<[url |-> login_url, reason |-> reason]>>,
              threw |-> th, post_login_url |-> post, start |-> "none"]
  /\ base_domain' = Netloc(login_url)
  /\ prescriptive_urls' = additional_urls
  /\ pc' = "seeds"

\* return False, login_url; then `if not success: ... return {}`
AuthFailed(reason, th, post) ==
  /\ metrics' = record_page_skipped(metrics, login_url, reason)
  /\ auth' = [ran |-> TRUE, success |-> FALSE, landing_page |-> login_url,
              recs |-> <<[url |-> login_url, reason |-> reason]>>,
              threw |-> th, post_login_url |-> post, start |-> "none"]
  /\ pc' = "done"
  /\ UNCHANGED <<base_domain, prescriptive_urls>>

\* return True, landing; then lines 517-525 of login_and_crawl_all_pages.
AuthSucceeded(landing, recs, post, start) ==
  /\ auth' = [ran |-> TRUE, success |-> TRUE, landing_page |-> landing,
              recs |-> recs, threw |-> FALSE, post_login_url |-> post,
              start |-> start]
  /\ base_domain' = Netloc(login_url)
  /\ prescriptive_urls' =
       IF additional_urls = <<>> /\ landing # login_url
       THEN <<landing>> ELSE additional_urls
  /\ pc' = "seeds"

\* Faulty variant: the login page itself counts as a redirect.
StillOnLoginPageNever(post) == FALSE

\* if post_login_url == login_url
StillOnLoginPage(post) == post = login_url

\* if start_url and start_url != login_url and start_url != post_login_url
StartUrlRequested(post) == url # login_url /\ url # post

\* Faulty variant: a failed navigation to start_url fails the authentication.
StartUrlFailedAborts(ne, post) ==
  AuthFailed("navigation_error: " \o Truncate50(ne), FALSE, post)

\* Faulty variant: the failed navigation to start_url is recorded against
\* the login URL.
StartUrlFailedBlamesLoginUrl(ne, post) ==
  LET reason == "navigation_error: " \o Truncate50(ne)
  IN /\ metrics' = record_page_skipped(metrics, login_url, reason)
     /\ AuthSucceeded(post, <<[url |-> login_url, reason |-> reason]>>, post,
                      "failed")

\* except Exception as e (start_url): record navigation_error,
\* return True, post_login_url
StartUrlFailed(ne, post) ==
  LET reason == "navigation_error: " \o Truncate50(ne)
  IN /\ metrics' = record_page_skipped(metrics, url, reason)
     /\ AuthSucceeded(post, <<[url |-> url, reason |-> reason]>>, post,
                      "failed")

\* navigate_authenticated_site followed by lines 512-525 of
\* login_and_crawl_all_pages.
navigate_authenticated_site ==
  /\ pc = "auth"
  /\ \E threw \in BOOLEAN, post_login_url \in PostLoginUrls,
        error_elem \in BOOLEAN, start_ok \in BOOLEAN, e \in ErrorMessages,
        ne \in PageErrors :
       IF threw
       THEN AuthFailed("auth_error: " \o Truncate50(e), TRUE, NoUrl)
       ELSE IF StillOnLoginPage(post_login_url)
       THEN IF error_elem
            THEN AuthFailed("login_failed: " \o Truncate50(e), FALSE,
                            post_login_url)
            ELSE AuthFailed("login_failed_no_redirect", FALSE, post_login_url)
       ELSE IF StartUrlRequested(post_login_url)
       THEN IF start_ok
            THEN /\ AuthSucceeded(url, <<>>, post_login_url, "ok")
                 /\ UNCHANGED metrics
            ELSE StartUrlFailed(ne, post_login_url)
       ELSE /\ AuthSucceeded(post_login_url, <<>>, post_login_url, "none")
            /\ UNCHANGED metrics
  /\ UNCHANGED <<config, si, stack, visited_urls, url_to_content,
                 attempts>>

\* ------------------------------------------------------------------- Init
Init ==
  /\ variant \in {"login", "nologin"}
  /\ login_url = LoginUrl
  /\ url \in IF variant = "login"
             THEN {LoginUrl, Home, A}
             ELSE {Home}
  /\ site \in Sites
  /\ additional_urls \in SeqsUpTo(SeedUrls, MaxSeeds)
  /\ max_pages \in 1..MaxPagesBound
  /\ base_domain = IF variant = "login" THEN "" ELSE Netloc(url)
  /\ prescriptive_urls = IF variant = "login" THEN <<>> ELSE additional_urls
  /\ si = 1
  /\ pc = IF variant = "login" THEN "auth" ELSE "seeds"
  /\ stack = <<>>
  /\ visited_urls = {}
  /\ url_to_content = <<>>
  /\ metrics = CrawlMetrics(max_pages)
  /\ auth = NoAuth
  /\ attempts = <<>>
  /\ tokens = TokenMetrics
  /\ time = [TimeMetrics EXCEPT !.start_time = 0]
  /\ model = "gpt-4o-mini"
  /\ summaries = <<>>

Next ==
  \/ navigate_authenticated_site
  \/ SeedLoop
  \/ EntryCrawl
  \/ Close
  \/ Goto
  \/ Content
  \/ ExtractLinks
  \/ LinkLoop

Spec == Init /\ [][Next]_vars
\* The event loop resumes the crawl whenever it can take a step: every await
\* of the crawl ends, with its result or with an exception.
FairSpec == Spec /\ WF_vars(Next)

\* ------------------------------------------------- binary floating point
\* Python's float is IEEE 754 binary64.  A natural number is a sequence of
\* limbs of LimbBits bits, least significant first and the last one not 0,
\* so that every partial result stays below 2^31.  A float is m * 2^e with m
\* of exactly MantissaBits bits, or zero.  Only non-negative, normal values
\* occur.
MantissaBits == 53
LimbBits == 13
LimbBase == 2^LimbBits

\* The number of limbs up to the highest one that is not 0.
HighLimb(x) ==
  IF \A i \in DOMAIN x : x[i] = 0 THEN 0
  ELSE CHOOSE i \in DOMAIN x :
         x[i] # 0 /\ \A j \in (i + 1)..Len(x) : x[j] = 0

Trim(x) == SubSeq(x, 1, HighLimb(x))

\* The limbs of n < 2^31.
LimbsOf(n) ==
  Trim(<<n % LimbBase, (n \div LimbBase) % LimbBase,
         n \div (LimbBase * LimbBase)>>)

LimbAt(x, i) == IF i >= 1 /\ i <= Len(x) THEN x[i] ELSE 0

\* The number the limbs stand for; it is below 2^31.
RECURSIVE ValueFrom(_, _)
ValueFrom(x, i) ==
  IF i > Len(x) THEN 0 ELSE x[i] + LimbBase * ValueFrom(x, i + 1)

Value(x) == ValueFrom(x, 1)

RECURSIVE AddFrom(_, _, _, _)
AddFrom(x, y, i, c) ==
  IF i > Len(x) /\ i > Len(y)
  THEN IF c = 0 THEN <<>> ELSE <<c>>
  ELSE LET t == LimbAt(x, i) + LimbAt(y, i) + c
       IN <<t % LimbBase>> \o AddFrom(x, y, i + 1, t \div LimbBase)

Add(x, y) == AddFrom(x, y, 1, 0)

\* The sum of x[i] * y[k + 1 - i] over the limbs that exist, from i up.
RECURSIVE Column(_, _, _, _)
Column(x, y, k, i) ==
  IF i > Len(x) \/ i > k THEN 0
  ELSE LimbAt(x, i) * LimbAt(y, k + 1 - i) + Column(x, y, k, i + 1)

RECURSIVE MulFrom(_, _, _, _)
MulFrom(x, y, k, c) ==
  IF k > Len(x) + Len(y) THEN <<>>
  ELSE LET t == Column(x, y, k, 1) + c
       IN <<t % LimbBase>> \o MulFrom(x, y, k + 1, t \div LimbBase)

Mul(x, y) == Trim(MulFrom(x, y, 1, 0))

\* Long division of the limbs x[1..i] (with remainder r carried in from
\* above) by the number d < 2^18: the remainder, then the quotient limbs.
RECURSIVE DivFrom(_, _, _, _)
DivFrom(x, d, i, r) ==
  IF i = 0 THEN <<r>>
  ELSE Append(DivFrom(x, d, i - 1, (LimbBase * r + x[i]) % d),
              (LimbBase * r + x[i]) \div d)

DivSmall(x, d) ==
  LET y == DivFrom(x, d, Len(x), 0) IN [q |-> Trim(Tail(y)), r |-> y[1]]

\* The number of bits of x.
BitLen(x) ==
  IF x = <<>> THEN 0
  ELSE LimbBits * (Len(x) - 1)
         + (CHOOSE k \in 1..LimbBits :
              2^(k - 1) <= x[Len(x)] /\ x[Len(x)] < 2^k)

\* Bit p of x, bit 0 being the lowest.
BitOf(x, p) ==
  IF p < 0 THEN 0
  ELSE (LimbAt(x, p \div LimbBits + 1) \div 2^(p % LimbBits)) % 2

\* Some bit of x below bit p is set.
AnyBelow(x, p) ==
  /\ p > 0
  /\ \/ \E i \in 1..Min(p \div LimbBits, Len(x)) : x[i] # 0
     \/ LimbAt(x, p \div LimbBits + 1) % 2^(p % LimbBits) # 0

\* x * 2^k
ShiftLeft(x, k) ==
  IF x = <<>> THEN <<>>
  ELSE [i \in 1..(k \div LimbBits) |-> 0] \o Mul(x, <<2^(k % LimbBits)>>)

\* x \div 2^k
ShiftRight(x, k) ==
  DivSmall(SubSeq(x, k \div LimbBits + 1, Len(x)), 2^(k % LimbBits)).q

FloatZero == [m |-> <<>>, e |-> 0]

\* The float nearest to x * 2^e (plus, when sticky, a positive amount below
\* one unit of x), ties to even.
RoundToFloat(x, e, sticky) ==
  IF x = <<>> THEN FloatZero
  ELSE IF BitLen(x) <= MantissaBits
  THEN [m |-> ShiftLeft(x, MantissaBits - BitLen(x)),
        e |-> e - (MantissaBits - BitLen(x))]
  ELSE LET drop == BitLen(x) - MantissaBits
           kept == ShiftRight(x, drop)
           up == /\ BitOf(x, drop - 1) = 1
                 /\ sticky \/ AnyBelow(x, drop - 1) \/ BitOf(kept, 0) = 1
           m == IF up THEN Add(kept, <<1>>) ELSE kept
       IN IF BitLen(m) > MantissaBits
          THEN [m |-> ShiftRight(m, 1), e |-> e + drop + 1]
          ELSE [m |-> m, e |-> e + drop]

\* n / d for integers n >= 0 and 0 < d < 2^18: true division, and the
\* value of a decimal literal.
FloatOfRatio(n, d) ==
  LET x == DivSmall(ShiftLeft(LimbsOf(n), 75), d)
  IN RoundToFloat(x.q, 0 - 75, x.r # 0)

FloatMul(x, y) == RoundToFloat(Mul(x.m, y.m), x.e + y.e, FALSE)

FloatAdd(x, y) ==
  IF x.m = <<>> THEN y
  ELSE IF y.m = <<>> THEN x
  ELSE LET lo == Min(x.e, y.e)
       IN RoundToFloat(Add(ShiftLeft(x.m, x.e - lo),
                           ShiftLeft(y.m, y.e - lo)), lo, FALSE)

\* x / n for a float x and an integer 0 < n < 2^18.
FloatDivInt(x, n) ==
  LET q == DivSmall(ShiftLeft(x.m, 60), n)
  IN RoundToFloat(q.q, x.e - 60, q.r # 0)

\* round(x, 4), as the number of ten-thousandths of the result: the exact
\* value of x rounded to 4 decimals, ties to even.
Round4(x) ==
  LET n == Mul(x.m, LimbsOf(10000))
      k == 0 - x.e
  IN IF k <= 0 THEN Value(ShiftLeft(n, x.e))
     ELSE LET up == /\ BitOf(n, k - 1) = 1
                    /\ AnyBelow(n, k - 1) \/ BitOf(n, k) = 1
          IN Value(ShiftRight(n, k)) + (IF up THEN 1 ELSE 0)

\* ---------------------------------------------- MetricsTracker, as an API
MaxCalls == 2

\* Prices per 1K tokens; a decimal literal is numerator over denominator.
Literal(r) == FloatOfRatio(r[1], r[2])

MODEL_PRICING ==
  "gpt-4o" :> [input |-> Literal(<<5, 1000>>),
               output |-> Literal(<<15, 1000>>)]
  @@ "gpt-4o-mini" :> [input |-> Literal(<<15, 100000>>),
                       output |-> Literal(<<6, 10000>>)]

\* TokenMetrics.calculate_cost
calculate_cost(t, mdl) ==
  LET pricing == IF mdl \in DOMAIN MODEL_PRICING
                 THEN MODEL_PRICING[mdl] ELSE MODEL_PRICING["gpt-4o-mini"]
      input_cost == FloatMul(FloatOfRatio(t.total_input_tokens, 1000),
                             pricing.input)
      output_cost == FloatMul(FloatOfRatio(t.total_output_tokens, 1000),
                              pricing.output)
  IN FloatAdd(input_cost, output_cost)

total_tokens(t) == t.total_input_tokens + t.total_output_tokens

\* Faulty variant: a session still running is measured against the clock.
elapsed_seconds_reads_clock(tm) ==
  IF tm.start_time # None
  THEN (IF tm.end_time # None THEN tm.end_time ELSE 3661) - tm.start_time
  ELSE 0

\* TimeMetrics.elapsed_seconds; timestamps are whole seconds.
elapsed_seconds(tm) ==
  IF tm.start_time # None /\ tm.end_time # None
  THEN tm.end_time - tm.start_time ELSE 0

\* str(n) for n >= 0.
RECURSIVE Str(_)
Str(n) ==
  LET d == SubSeq("0123456789", (n % 10) + 1, (n % 10) + 1)
  IN IF n < 10 THEN d ELSE Str(n \div 10) \o d

\* Faulty variant: no zero padding.
Format02dUnpadded(n) ==
  IF n < 0 THEN "-" \o Str(0 - n) ELSE Str(n)

\* f"{n:02d}"
Format02d(n) ==
  IF n < 0 THEN "-" \o Str(0 - n)
  ELSE IF n < 10 THEN "0" \o Str(n) ELSE Str(n)

\* TimeMetrics.format_elapsed
format_elapsed(tm) ==
  LET seconds == elapsed_seconds(tm)
      hours == seconds \div 3600
      remainder == seconds % 3600
      minutes == remainder \div 60
      secs == remainder % 60
  IN Format02d(hours) \o ":" \o Format02d(minutes) \o ":" \o Format02d(secs)

\* MetricsTracker.record_api_call
record_api_call(t, input_tokens, output_tokens) ==
  [total_input_tokens |-> t.total_input_tokens + input_tokens,
   total_output_tokens |-> t.total_output_tokens + output_tokens,
   api_calls |-> t.api_calls + 1]

\* The dict object self.crawl.skip_reasons: the summary holds the object
\* itself, not a copy of it.
SkipReasonsObject == "self.crawl.skip_reasons"

\* MetricsTracker.get_summary; costs are in ten-thousandths of a dollar.
get_summary(c, t, tm, mdl) ==
  LET cost == calculate_cost(t, mdl)
      pages == IF c.pages_crawled > 0 THEN c.pages_crawled ELSE 1
  IN [elapsed_time |-> format_elapsed(tm),
      elapsed_seconds |-> elapsed_seconds(tm),
      pages_requested |-> c.pages_requested,
      pages_crawled |-> c.pages_crawled,
      pages_skipped |-> c.pages_skipped,
      skip_reasons |-> SkipReasonsObject,
      total_input_tokens |-> t.total_input_tokens,
      total_output_tokens |-> t.total_output_tokens,
      total_tokens |-> total_tokens(t),
      api_calls |-> t.api_calls,
      estimated_cost_usd |-> Round4(cost),
      cost_per_page |-> Round4(FloatDivInt(cost, pages)),
      model_used |-> mdl]

\* What a holder of the summary reads in its skip_reasons field now.
SkipReasonsOf(summary) ==
  IF summary.skip_reasons = SkipReasonsObject THEN metrics.skip_reasons
  ELSE summary.skip_reasons

\* The crawler's variables, which the tracker's methods do not touch.
crawler == <<variant, login_url, url, additional_urls, max_pages, site,
             base_domain, prescriptive_urls, si, pc, stack, visited_urls,
             url_to_content, auth, attempts>>

Models == {"gpt-4o", "gpt-4o-mini", "gpt-3.5-turbo"}
Instants == {0, 3661}
TokenCounts == {<<1000, 1000>>, <<1234, 0>>}
TrackerUrls == {A}
TrackerReasons == {"duplicate", "navigation_error: " \o Truncate50("Timeout")}

\* The tracker's own view of its state.
TrackerState == <<metrics, tokens, time, model>>

Calls == metrics.pages_crawled + metrics.pages_skipped + tokens.api_calls

\* start_session and end_session are each called at most once, as the
\* application does.
StartSession ==
  /\ time.start_time = None
  /\ \E now \in Instants : time' = [time EXCEPT !.start_time = now]
  /\ UNCHANGED <<crawler, metrics, tokens, model, summaries>>

EndSession ==
  /\ time.end_time = None
  /\ \E now \in Instants : time' = [time EXCEPT !.end_time = now]
  /\ UNCHANGED <<crawler, metrics, tokens, model, summaries>>

RecordPageCrawled ==
  /\ Calls < MaxCalls
  /\ \E u \in TrackerUrls : metrics' = record_page_crawled(metrics, u)
  /\ UNCHANGED <<crawler, tokens, time, model, summaries>>

RecordPageSkipped ==
  /\ Calls < MaxCalls
  /\ \E u \in TrackerUrls, reason \in TrackerReasons :
       metrics' = record_page_skipped(metrics, u, reason)
  /\ UNCHANGED <<crawler, tokens, time, model, summaries>>

RecordApiCall ==
  /\ Calls < MaxCalls
  /\ \E call \in TokenCounts :
       tokens' = record_api_call(tokens, call[1], call[2])
  /\ UNCHANGED <<crawler, metrics, time, model, summaries>>

\* The caller keeps the summary returned, and with it the one returned
\* before when the tracker has not changed in between.  With a summary are
\* noted the contents of skip_reasons and the tracker state at the call.
Keep(summary) ==
  LET new == [summary |-> summary,
              skip_reasons |-> metrics.skip_reasons,
              state |-> TrackerState]
  IN IF summaries # <<>> /\ summaries[Len(summaries)].state = TrackerState
     THEN <<summaries[Len(summaries)], new>>
     ELSE <<new>>

\* Faulty variant: taking a summary ends the session.
GetSummaryEndsSession ==
  /\ summaries' = Keep(get_summary(metrics, tokens, time, model))
  /\ time' = [time EXCEPT !.end_time = 3661]
  /\ UNCHANGED <<crawler, metrics, tokens, model>>

\* A call of get_summary.
GetSummary ==
  /\ summaries' = Keep(get_summary(metrics, tokens, time, model))
  /\ UNCHANGED <<crawler, metrics, tokens, time, model>>

\* MetricsTracker(model): a fresh tracker, with no crawl under way.
TrackerInit ==
  /\ variant = "nologin" /\ login_url = LoginUrl /\ url = Home
  /\ additional_urls = <<>> /\ max_pages = 1 /\ site = Fan
  /\ base_domain = Netloc(Home) /\ prescriptive_urls = <<>> /\ si = 1
  /\ pc = "idle" /\ stack = <<>> /\ visited_urls = {}
  /\ url_to_content = <<>> /\ auth = NoAuth /\ attempts = <<>>
  /\ metrics = CrawlMetrics(0)
  /\ tokens = TokenMetrics
  /\ time = TimeMetrics
  /\ model \in Models
  /\ summaries = <<>>

TrackerNext ==
  \/ StartSession
  \/ EndSession
  \/ RecordPageCrawled
  \/ RecordPageSkipped
  \/ RecordApiCall
  \/ GetSummary

TrackerSpec == TrackerInit /\ [][TrackerNext]_vars

\* ------------------------------------------ MetricsTracker, session lengths
\* Lengths of a session: hours of one, two, three and four digits, minutes
\* and seconds of one and two digits.
Hours == {0, 1, 9, 10, 99, 100, 1000}
Sixtieths == {0, 1, 9, 10, 59}
Durations ==
  {h * 3600 + m * 60 + s : h \in Hours, m \in Sixtieths, s \in Sixtieths}

\* end_session, called when the session has lasted one of the Durations
\* (counted from 0 when start_session was not called before).
EndSessionAfter ==
  /\ time.end_time = None
  /\ \E d \in Durations :
       LET begun == IF time.start_time = None THEN 0 ELSE time.start_time
       IN time' = [time EXCEPT !.end_time = begun + d]
  /\ UNCHANGED <<crawler, metrics, tokens, model, summaries>>

TimeNext ==
  \/ StartSession
  \/ EndSessionAfter
  \/ GetSummary

\* The tracker with sessions of many lengths and no records.
TimeSpec == TrackerInit /\ [][TimeNext]_vars

\* ================================================================ claims
Range(s) == {s[i] : i \in DOMAIN s}

RECURSIVE SumOver(_, _)
SumOver(f, S) ==
  IF S = {} THEN 0
  ELSE LET x == CHOOSE y \in S : TRUE IN Len(f[x]) + SumOver(f, S \ {x})

\* The number of URLs listed over all skip_reasons buckets.
TotalSkipped == SumOver(metrics.skip_reasons, DOMAIN metrics.skip_reasons)

\* The URLs listed under a reason; none when the reason has no bucket.
Bucket(reason) ==
  IF reason \in DOMAIN metrics.skip_reasons
  THEN Range(metrics.skip_reasons[reason]) ELSE {}

Attempts == DOMAIN attempts
Crawled == DOMAIN url_to_content
\* No navigation, content read or link extraction has failed.
FailureFree ==
  \A i \in Attempts :
    /\ attempts[i].nav # "failed"
    /\ attempts[i].nav = "ok" /\ attempts[i].recs # <<>> =>
         attempts[i].recs = <<"Crawled">>
    /\ attempts[i].links # "failed"

\* C1: in every state of a crawl, mid-crawl included, url_to_content holds
\* at most max_pages entries.
C1_BudgetNeverExceeded == Cardinality(DOMAIN url_to_content) <= max_pages

\* A crawl stopped in the middle of a link loop with the budget just used up
\* and links still to come.
C1_Witness ==
  /\ stack # <<>> /\ Top.pc = "loop" /\ Top.i <= Len(Top.links)
  /\ Cardinality(DOMAIN url_to_content) = max_pages

\* The distinct URLs that reached a decision: those handed to the crawl step
\* and those the authentication step recorded a skip for.
DecidedUrls ==
  {attempts[i].url : i \in Attempts} \cup {r.url : r \in Range(auth.recs)}

\* C2 as stated: at the end of a session, pages_crawled plus the URLs listed
\* in skip_reasons equals the number of distinct URLs that reached a decision.
C2_Original ==
  pc = "done" =>
    metrics.pages_crawled + TotalSkipped = Cardinality(DecidedUrls)

\* C2 amended: at the end of a session, pages_crawled plus the URLs listed in
\* skip_reasons equals the number of visit attempts (invocations of the crawl
\* step, a URL attempted again counting again) plus the skips the
\* authentication step recorded; pages_skipped is the count of listed URLs.
C2_CountsAttempts ==
  pc = "done" =>
    /\ metrics.pages_crawled + TotalSkipped = Len(attempts) + Len(auth.recs)
    /\ metrics.pages_skipped = TotalSkipped

\* A finished session in which some URL was attempted twice and the
\* authentication step recorded a skip.
C2_Witness ==
  /\ pc = "done" /\ auth.success /\ Len(auth.recs) = 1
  /\ \E i, j \in Attempts : i < j /\ attempts[i].url = attempts[j].url
  /\ metrics.pages_crawled > 0

\* C3: a URL enters visited_urls and is navigated in at most one attempt;
\* every later attempt at it records `duplicate` and does not navigate,
\* however the first attempt ended.
C3_VisitedOnce ==
  /\ \A i \in Attempts : attempts[i].nav # "none" => attempts[i].added
  /\ \A i, j \in Attempts :
       (i < j /\ attempts[i].url = attempts[j].url /\ attempts[i].added) =>
         /\ attempts[j].recs = <<"duplicate">>
         /\ ~attempts[j].added
         /\ attempts[j].nav = "none"

\* Scenario E (two pages link to the same third page) finished, and in the
\* same session a page whose navigation failed met again.
C3_Witness ==
  /\ pc = "done" /\ site = Shared
  /\ \E i, j \in Attempts :
       /\ i < j /\ attempts[i].url = C /\ attempts[j].url = C
       /\ attempts[i].recs = <<"Crawled">> /\ attempts[j].recs = <<"duplicate">>
  /\ \E i, j \in Attempts :
       /\ i < j /\ attempts[i].url = attempts[j].url
       /\ attempts[i].nav = "failed" /\ attempts[j].recs = <<"duplicate">>

\* C4: the outcome of an attempt is the reason of the first check that
\* matches, in the order budget, visited, depth, domain; the URL is marked
\* visited and navigated only if none matches.
C4_CheckOrder ==
  \A i \in Attempts :
    LET a == attempts[i]
        skipped(reason) ==
          a.recs = <<reason>> /\ ~a.added /\ a.nav = "none" /\ a.returned
    IN IF a.full THEN skipped("max_limit_reached")
       ELSE IF a.seen THEN skipped("duplicate")
       ELSE IF a.depth > max_depth THEN skipped("max_depth_exceeded")
       ELSE IF Netloc(a.url) # base_domain THEN skipped("domain_mismatch")
       ELSE a.added

\* A URL both already visited and too deep, recorded duplicate.
C4_Witness ==
  \E i \in Attempts :
    /\ attempts[i].seen /\ attempts[i].depth > max_depth
    /\ attempts[i].recs = <<"duplicate">>

\* C5: every visit attempt that has returned recorded exactly one outcome,
\* an attempt under way at most one, and the tracker holds exactly the
\* outcomes the attempts and the authentication step recorded.
C5_OneOutcome ==
  /\ \A i \in Attempts :
       /\ Len(attempts[i].recs) <= 1
       /\ attempts[i].returned => Len(attempts[i].recs) = 1
  /\ metrics.pages_crawled + TotalSkipped =
       Cardinality({i \in Attempts : Len(attempts[i].recs) = 1}) + Len(auth.recs)
  /\ metrics.pages_crawled =
       Cardinality({i \in Attempts : attempts[i].recs = <<"Crawled">>})

\* A finished session with a policy skip, a navigation failure, a content
\* failure, a link-extraction failure and a plain success.
C5_Witness ==
  /\ pc = "done"
  /\ \E i \in Attempts : attempts[i].recs = <<"duplicate">>
  /\ \E i \in Attempts : attempts[i].nav = "failed"
  /\ \E i \in Attempts :
       attempts[i].nav = "ok" /\ attempts[i].recs # <<"Crawled">>
  /\ \E i \in Attempts :
       attempts[i].recs = <<"Crawled">> /\ attempts[i].links = "failed"
  /\ \E i \in Attempts : attempts[i].links = "ok"
\* The closed enumeration of skip reasons.
SkipReason ==
  {"duplicate", "domain_mismatch", "max_limit_reached", "max_depth_exceeded",
   "navigation_error", "content_error", "login_failed", "auth_error"}

\* C6 as stated: after a session every key of skip_reasons is one of the
\* eight values of the enumeration.
C6_ClosedEnumeration ==
  pc = "done" => DOMAIN metrics.skip_reasons \subseteq SkipReason

\* The URLs a session that crawls has discovered: the seeds, the entry URL
\* and the links extracted from crawled pages.
Discovered ==
  Range(prescriptive_urls) \cup {url}
    \cup UNION {Range(LinksOf(site, attempts[i].url)) :
                  i \in {j \in Attempts : attempts[j].links = "ok"}}

BucketsOf(u) == {r \in DOMAIN metrics.skip_reasons : u \in Bucket(r)}

\* C7 as stated: at the end of a session that crawled, every discovered URL
\* that was not crawled is listed in exactly one skip_reasons bucket.
C7_NoSilentDrops ==
  (pc = "done" /\ (variant = "nologin" \/ auth.success)) =>
    \A u \in Discovered \ Crawled : Cardinality(BucketsOf(u)) = 1

\* C8 as stated (Scenario A): with max_pages = 3, an entry page linking to 5
\* same-domain pages, no seeds and no failures, 3 URLs are recorded Crawled
\* and each remaining linked page is listed under max_limit_reached.
C8_ScenarioA ==
  (/\ pc = "done" /\ variant = "nologin" /\ site = Fan
   /\ max_pages = 3 /\ additional_urls = <<>> /\ FailureFree) =>
    /\ metrics.pages_crawled = 3
    /\ \A u \in Range(Fan[Home]) \ Crawled : u \in Bucket("max_limit_reached")

\* C9 as stated: at the end of a session every link extracted from a crawled
\* page whose authority differs from base_domain is listed under
\* domain_mismatch, and was never navigated.
C9_ExternalLinks ==
  pc = "done" =>
    \A i \in {j \in Attempts : attempts[j].links = "ok"} :
      \A u \in Range(LinksOf(site, attempts[i].url)) :
        Netloc(u) # base_domain =>
          /\ u \in Bucket("domain_mismatch")
          /\ \A k \in Attempts : attempts[k].url = u => attempts[k].nav = "none"

\* C10: no URL is marked visited or navigated at a depth above max_depth;
\* and on the chain Home -> /a -> /b -> /c -> /d, with no seeds, no failures
\* and budget to spare, the pages at depth 0, 1 and 2 are crawled and the
\* link at depth 3 is listed under max_depth_exceeded and not navigated.
C10_DepthBound ==
  /\ \A i \in Attempts :
       (attempts[i].added \/ attempts[i].nav # "none") =>
         attempts[i].depth <= max_depth
  /\ (/\ pc = "done" /\ variant = "nologin" /\ site = Chain
      /\ additional_urls = <<>> /\ max_pages > max_depth + 1 /\ FailureFree) =>
       /\ metrics.crawled_urls = <<Home, A, B>>
       /\ Crawled = {Home, A, B}
       /\ C \in Bucket("max_depth_exceeded")
       /\ \A i \in Attempts : attempts[i].url = C => attempts[i].nav = "none"

\* Scenario C finished.
C10_Witness ==
  /\ pc = "done" /\ variant = "nologin" /\ site = Chain
  /\ additional_urls = <<>> /\ max_pages > max_depth + 1 /\ FailureFree
  /\ \E i \in Attempts : attempts[i].url = C /\ attempts[i].depth = max_depth + 1

\* The reason text starts with the category name.
HasPrefix(s, p) == Len(s) >= Len(p) /\ SubSeq(s, 1, Len(p)) = p

\* C11: when the authentication fails, whatever the cause, the session is
\* over with an empty content map, no crawl step has run, and the tracker
\* holds exactly one skip, a login_failed or auth_error reason against the
\* login URL.
C11_AuthFailureAborts ==
  (auth.ran /\ ~auth.success) =>
    /\ pc = "done" /\ stack = <<>>
    /\ url_to_content = <<>> /\ visited_urls = {} /\ attempts = <<>>
    /\ metrics.pages_crawled = 0 /\ metrics.pages_skipped = 1
    /\ \E reason \in DOMAIN metrics.skip_reasons :
         /\ HasPrefix(reason, "login_failed") \/ HasPrefix(reason, "auth_error")
         /\ metrics.skip_reasons = reason :> <<login_url>>
         /\ auth.recs = <<[url |-> login_url, reason |-> reason]>>

\* Scenario D: a login step timed out on a selector that matches nothing.
C11_Witness ==
  /\ auth.ran /\ ~auth.success /\ auth.threw /\ pc = "done"
  /\ \E reason \in DOMAIN metrics.skip_reasons : HasPrefix(reason, "auth_error")

\* The URLs of the attempts made at depth 0, in the order they were made.
RECURSIVE TopLevelUrls(_)
TopLevelUrls(n) ==
  IF n = 0 THEN <<>>
  ELSE IF attempts[n].depth = 0
       THEN Append(TopLevelUrls(n - 1), attempts[n].url)
       ELSE TopLevelUrls(n - 1)

SeedsAttempted == SubSeq(prescriptive_urls, 1, si - 1)

\* C12: the attempts at depth 0 are the seeds, in the order of the list,
\* followed by at most one attempt at the entry URL; every other attempt is
\* deeper.  Each of them is made with budget left and decided by the same
\* duplicate and domain checks as a link.  The seed loop ends with all seeds
\* attempted or the budget used up, and the entry URL is attempted only
\* after it has ended, and then exactly when budget is left.
C12_SeedsFirst ==
  LET top == TopLevelUrls(Len(attempts))
  IN /\ pc \in {"auth", "seeds", "entry"} => top = SeedsAttempted
     /\ pc \in {"close", "done"} =>
          \/ top = SeedsAttempted \o <<url>>
          \/ /\ top = SeedsAttempted
             /\ \/ variant = "login" /\ ~auth.success
                \/ BudgetExhausted
     /\ pc \in {"entry", "close", "done"} /\ si <= Len(prescriptive_urls) =>
          BudgetExhausted /\ top = SeedsAttempted
     /\ \A i \in Attempts :
          attempts[i].depth = 0 =>
            LET a == attempts[i]
            IN /\ ~a.full
               /\ IF a.seen THEN a.recs = <<"duplicate">>
                  ELSE IF Netloc(a.url) # base_domain
                  THEN a.recs = <<"domain_mismatch">>
                  ELSE a.added

\* A finished session with two different seeds tried in turn, the first one
\* out of scope, pages crawled below the second, and the entry URL tried
\* last of all.
C12_Witness ==
  /\ pc = "done" /\ prescriptive_urls = <<X, A>>
  /\ TopLevelUrls(Len(attempts)) = <<X, A, url>>
  /\ attempts[1].recs = <<"domain_mismatch">>
  /\ attempts[Len(attempts)].url = url /\ attempts[Len(attempts)].depth = 0
  /\ Len(attempts) > 3

\* The attempts made from the link loop of attempt i.
Children(i) == {j \in Attempts : attempts[j].parent = i}

\* No frame of attempt i is on the stack.
Unwound(i) == \A k \in DOMAIN stack : stack[k].id # i

\* The frontier was worked off: in a finished session that crawled and has
\* budget left, every seed and the entry URL were attempted, and so was
\* every in-scope link of every page whose links were listed.
FrontierDone ==
  (pc = "done" /\ (variant = "nologin" \/ auth.success) /\ ~BudgetExhausted) =>
    /\ TopLevelUrls(Len(attempts)) = prescriptive_urls \o <<url>>
    /\ \A i \in Attempts :
         attempts[i].links = "ok" =>
           \A k \in DOMAIN LinksOf(site, attempts[i].url) :
             LET link == LinksOf(site, attempts[i].url)[k]
             IN LinkFilter(link) =>
                  \E j \in Children(i) :
                    attempts[j].url = link /\ attempts[j].returned

\* C13: an attempt whose navigation failed has returned with exactly one
\* record, a navigation_error reason listing its URL; the URL is marked
\* visited but has no content, its links were not read and no attempt was
\* made from it; only its own frame was unwound, and the frontier is still
\* worked off.
C13_NavigationError ==
  /\ \A i \in Attempts :
       attempts[i].nav = "failed" =>
         LET a == attempts[i]
         IN /\ a.returned /\ Unwound(i)
            /\ Len(a.recs) = 1 /\ HasPrefix(a.recs[1], "navigation_error")
            /\ a.url \in Bucket(a.recs[1])
            /\ a.url \in visited_urls /\ a.url \notin Crawled
            /\ a.links = "none" /\ Children(i) = {}
            /\ a.parent # 0 =>
                 \/ attempts[a.parent].returned
                 \/ \E k \in DOMAIN stack : stack[k].id = a.parent
  /\ FrontierDone

\* A finished session with budget left in which the navigation to a seed
\* and to a link failed, and a later link of the same page and the entry
\* URL were crawled.
C13_Witness ==
  /\ pc = "done" /\ ~BudgetExhausted
  /\ \E i \in Attempts : attempts[i].nav = "failed" /\ attempts[i].depth = 0
  /\ \E i, j \in Attempts :
       /\ i < j /\ attempts[i].parent # 0
       /\ attempts[i].parent = attempts[j].parent
       /\ attempts[i].nav = "failed" /\ attempts[j].recs = <<"Crawled">>
  /\ attempts[Len(attempts)].depth = 0

\* Attempt i navigated, and returned without storing content.
ContentFailedIn(i) ==
  /\ attempts[i].nav = "ok" /\ attempts[i].returned
  /\ attempts[i].recs # <<"Crawled">>

\* C14: an attempt whose content read failed after a successful navigation
\* has exactly one record, a content_error reason listing its URL; the URL
\* is not recorded Crawled and has no content while it stays marked visited,
\* its links were not read and no attempt was made from it; the frontier is
\* still worked off.
C14_ContentError ==
  /\ \A i \in Attempts :
       ContentFailedIn(i) =>
         LET a == attempts[i]
         IN /\ Unwound(i)
            /\ Len(a.recs) = 1 /\ HasPrefix(a.recs[1], "content_error")
            /\ a.url \in Bucket(a.recs[1])
            /\ a.url \notin Range(metrics.crawled_urls)
            /\ a.url \notin Crawled /\ a.url \in visited_urls
            /\ a.links = "none" /\ Children(i) = {}
  /\ FrontierDone

\* A finished session with budget left in which the content of a linked
\* page could not be read and a later link of the same page was crawled.
C14_Witness ==
  /\ pc = "done" /\ ~BudgetExhausted
  /\ \E i, j \in Attempts :
       /\ i < j /\ attempts[i].parent # 0
       /\ attempts[i].parent = attempts[j].parent
       /\ ContentFailedIn(i) /\ attempts[j].recs = <<"Crawled">>

\* C15: an attempt whose link extraction failed has returned with its
\* content stored and Crawled as its one and only record; no attempt was
\* made from it, and the frontier is still worked off.
C15_LinkExtractionError ==
  /\ \A i \in Attempts :
       attempts[i].links = "failed" =>
         LET a == attempts[i]
         IN /\ a.returned /\ Unwound(i)
            /\ a.nav = "ok" /\ a.recs = <<"Crawled">>
            /\ a.url \in Crawled /\ url_to_content[a.url] = "cleaned"
            /\ a.url \in Range(metrics.crawled_urls)
            /\ Children(i) = {}
  /\ FrontierDone

\* A finished session with budget left in which the links of a linked page
\* could not be read, the page has links on the site, and a later link of
\* the same parent was crawled.
C15_Witness ==
  /\ pc = "done" /\ ~BudgetExhausted
  /\ \E i, j \in Attempts :
       /\ i < j /\ attempts[i].parent # 0
       /\ attempts[i].parent = attempts[j].parent
       /\ attempts[i].links = "failed"
       /\ LinksOf(site, attempts[i].url) # <<>>
       /\ attempts[j].recs = <<"Crawled">>

\* C16: navigate_authenticated_site returns success exactly when no login
\* step threw and the URL after the form was submitted differs from the
\* login URL; when it returns failure the URL it returns is the login URL.
C16_SuccessCriterion ==
  auth.ran =>
    /\ auth.success <=> (~auth.threw /\ auth.post_login_url # login_url)
    /\ ~auth.success => auth.landing_page = login_url
    /\ auth.success => auth.landing_page \in {auth.post_login_url, url}

\* The form was submitted without an exception and the browser is still on
\* the login page: failure, with the login URL returned.
C16_Witness ==
  /\ auth.ran /\ ~auth.threw /\ auth.post_login_url = login_url
  /\ ~auth.success /\ auth.landing_page = login_url

\* The counterpart: a redirect away from the login page, success.
C16_WitnessSuccess ==
  /\ auth.ran /\ ~auth.threw /\ auth.post_login_url = Home /\ auth.success

\* C17: after a successful login the navigation to the start URL is tried
\* exactly when the start URL differs from the login URL and from the
\* post-login URL; when it succeeds the start URL is returned, when it fails
\* success is still returned, with the post-login URL, and the crawl runs.
C17_StartUrlFallback ==
  (auth.ran /\ ~auth.threw /\ auth.post_login_url # login_url) =>
    IF url # login_url /\ url # auth.post_login_url
    THEN /\ auth.start \in {"ok", "failed"}
         /\ auth.start = "ok" => auth.success /\ auth.landing_page = url
         /\ auth.start = "failed" =>
              /\ auth.success /\ auth.landing_page = auth.post_login_url
              /\ pc # "auth" /\ base_domain = Netloc(login_url)
              /\ prescriptive_urls # <<>>
              /\ pc = "done" => attempts # <<>>
    ELSE /\ auth.start = "none"
         /\ auth.success /\ auth.landing_page = auth.post_login_url

\* A finished session in which the login succeeded, the navigation to the
\* start URL failed, and the crawl went on from the landing page and stored
\* content.
C17_Witness ==
  /\ pc = "done" /\ auth.success /\ auth.start = "failed"
  /\ url = A /\ auth.landing_page = Home /\ additional_urls = <<>>
  /\ attempts # <<>> /\ attempts[1].url = Home
  /\ Home \in Crawled

\* C18: get_summary changes nothing in the tracker (crawl counters and
\* lists, token counters, timestamps, model), and two calls made in the
\* same tracker state return equal summaries.
C18_SummaryIdempotent ==
  /\ [][summaries' # summaries => UNCHANGED TrackerState]_vars
  /\ [](\A i, j \in DOMAIN summaries :
          summaries[i].state = summaries[j].state =>
            summaries[i].summary = summaries[j].summary)

\* Two summaries taken one after the other from a tracker that has recorded
\* a page in a session that was started and ended.
C18_Witness ==
  /\ Len(summaries) = 2
  /\ summaries[1].state = TrackerState /\ summaries[2].state = TrackerState
  /\ metrics.pages_crawled + metrics.pages_skipped > 0
  /\ time.start_time # None /\ time.end_time # None

\* C19: a summary is a snapshot: the contents of its skip_reasons mapping
\* stay what they were when get_summary returned it, whatever the tracker
\* records afterwards.
C19_SnapshotImmutable ==
  \A i \in DOMAIN summaries :
    SkipReasonsOf(summaries[i].summary) = summaries[i].skip_reasons

\* The pricing rows as decimal numbers, in hundred-thousandths of a dollar
\* per 1K tokens.
DecimalPricing ==
  [m \in DOMAIN MODEL_PRICING |->
     CASE m = "gpt-4o"      -> [input |-> 500, output |-> 1500]
       [] m = "gpt-4o-mini" -> [input |-> 15,  output |-> 60]]

\* n / d rounded to the nearest integer, ties to the even one.
RoundHalfEven(n, d) ==
  LET q == n \div d
      r == n % d
  IN IF 2 * r > d \/ (2 * r = d /\ q % 2 = 1) THEN q + 1 ELSE q

\* round((input_tokens/1000)*priceIn + (output_tokens/1000)*priceOut, 4) in
\* decimal arithmetic, in ten-thousandths of a dollar.
DecimalCost(input_tokens, output_tokens, mdl) ==
  LET row == IF mdl \in DOMAIN DecimalPricing
             THEN DecimalPricing[mdl]
             ELSE DecimalPricing["gpt-4o-mini"]
  IN RoundHalfEven(input_tokens * row.input + output_tokens * row.output,
                   10000)

\* C20: the estimated cost of every summary is the decimal value of
\* round((inputTokens/1000)*priceIn + (outputTokens/1000)*priceOut, 4) with
\* the row of the tracker's model, or of gpt-4o-mini when the model has no
\* row; with 1000 input and 1000 output tokens on the fallback row that
\* is 0.0008.
C20_EstimatedCost ==
  /\ DecimalCost(1000, 1000, "gpt-3.5-turbo") = 8
  /\ \A i \in DOMAIN summaries :
       LET s == summaries[i].summary
       IN s.estimated_cost_usd =
            DecimalCost(s.total_input_tokens, s.total_output_tokens,
                        s.model_used)

\* The timestamps a summary was taken with.
TimeOf(i) == summaries[i].state[3]

\* C21: elapsed_seconds is 0 when start_time or end_time is unset, and
\* end_time - start_time when both are set and the end is not before the
\* start; the elapsed_seconds field of a summary is that value for the
\* timestamps it was taken with.
C21_ElapsedSeconds ==
  /\ time.start_time = None \/ time.end_time = None =>
       elapsed_seconds(time) = 0
  /\ time.start_time # None /\ time.end_time # None
       /\ time.end_time >= time.start_time =>
       elapsed_seconds(time) = time.end_time - time.start_time
  /\ \A i \in DOMAIN summaries :
       LET tm == TimeOf(i)
           reported == summaries[i].summary.elapsed_seconds
       IN /\ tm.start_time = None \/ tm.end_time = None => reported = 0
          /\ tm.start_time # None /\ tm.end_time # None
               /\ tm.end_time >= tm.start_time =>
               reported = tm.end_time - tm.start_time

\* A session that ran from 0 to 3661, and a summary of it reporting 3661
\* seconds.
C21_Witness ==
  /\ time.start_time = 0 /\ time.end_time = 3661
  /\ Len(summaries) = 2
  /\ summaries[2].summary.elapsed_seconds = 3661

\* The number a string of decimal digits stands for.
IsDigits(s) ==
  \A i \in 1..Len(s) :
    \E d \in 0..9 : SubSeq("0123456789", d + 1, d + 1) = SubSeq(s, i, i)

DigitValue(c) == CHOOSE d \in 0..9 : SubSeq("0123456789", d + 1, d + 1) = c

RECURSIVE ParseInt(_)
ParseInt(s) ==
  IF Len(s) = 0 THEN 0
  ELSE ParseInt(SubSeq(s, 1, Len(s) - 1)) * 10
         + DigitValue(SubSeq(s, Len(s), Len(s)))

\* C22: the elapsed_time of a session of h*3600 + m*60 + s seconds is
\* HH:MM:SS, two digits for the minutes and the seconds and two or more for
\* the hours, and the three fields read back as h, m and s; 3661 seconds
\* give "01:01:01", 0 seconds and a session not complete give "00:00:00".
C22_FormatElapsed ==
  \A i \in DOMAIN summaries :
    LET tm == TimeOf(i)
        text == summaries[i].summary.elapsed_time
        n == Len(text)
        d == tm.end_time - tm.start_time
        hh == SubSeq(text, 1, n - 6)
        mm == SubSeq(text, n - 4, n - 3)
        ss == SubSeq(text, n - 1, n)
    IN /\ tm.start_time = None \/ tm.end_time = None => text = "00:00:00"
       /\ tm.start_time # None /\ tm.end_time # None /\ d >= 0 =>
            /\ n >= 8
            /\ SubSeq(text, n - 5, n - 5) = ":"
            /\ SubSeq(text, n - 2, n - 2) = ":"
            /\ IsDigits(hh) /\ IsDigits(mm) /\ IsDigits(ss)
            /\ ParseInt(hh) = d \div 3600
            /\ ParseInt(mm) = (d % 3600) \div 60
            /\ ParseInt(ss) = d % 60
            /\ d = 3661 => text = "01:01:01"
            /\ d = 0 => text = "00:00:00"

\* A summary of a session of 100 hours, 9 minutes and 59 seconds.
C22_Witness ==
  /\ summaries # <<>>
  /\ summaries[Len(summaries)].summary.elapsed_time = "100:09:59"
  /\ time.end_time - time.start_time = 100 * 3600 + 9 * 60 + 59

\* C23: on a tracker used from fresh, pages_crawled is the length of
\* crawled_urls and pages_skipped the number of URLs over all buckets; a
\* recorded skip adds one URL at the end of the bucket of its reason, which
\* is created when new, and leaves the other buckets, crawled_urls, the
\* token counters and the timestamps as they were.
C23_RecordsConsistent ==
  /\ [](/\ metrics.pages_crawled = Len(metrics.crawled_urls)
        /\ metrics.pages_skipped = TotalSkipped)
  /\ [][metrics'.pages_skipped # metrics.pages_skipped =>
          LET old == metrics.skip_reasons
              new == metrics'.skip_reasons
          IN /\ metrics'.pages_skipped = metrics.pages_skipped + 1
             /\ \E reason \in DOMAIN new :
                  /\ DOMAIN new = DOMAIN old \cup {reason}
                  /\ Len(new[reason]) > 0
                  /\ new[reason][Len(new[reason])] \in TrackerUrls
                  /\ SubSeq(new[reason], 1, Len(new[reason]) - 1) =
                       (IF reason \in DOMAIN old THEN old[reason] ELSE <<>>)
                  /\ \A r \in DOMAIN old \ {reason} : new[r] = old[r]
             /\ metrics'.crawled_urls = metrics.crawled_urls
             /\ metrics'.pages_crawled = metrics.pages_crawled
             /\ UNCHANGED <<tokens, time, model>>]_vars

\* Two skips recorded under two reasons, each bucket listing one URL.
C23_Witness ==
  /\ metrics.pages_skipped = 2
  /\ Cardinality(DOMAIN metrics.skip_reasons) = 2
  /\ \A r \in DOMAIN metrics.skip_reasons : Len(metrics.skip_reasons[r]) = 1

\* Attempt i was made by the seed loop: it is one of the first si - 1
\* attempts at depth 0.
IsSeedAttempt(i) ==
  /\ attempts[i].parent = 0
  /\ Cardinality({j \in 1..i : attempts[j].parent = 0}) <= si - 1

\* Attempt i was made for a link found on a page.
IsLinkAttempt(i) == attempts[i].parent # 0

\* Attempt m was made below attempt p.
RECURSIVE Descends(_, _)
Descends(m, p) ==
  /\ m # 0
  /\ \/ attempts[m].parent = p
     \/ Descends(attempts[m].parent, p)

\* The URLs attempted from the link loop of attempt i, among the first n
\* attempts, in the order they were attempted.
RECURSIVE ChildUrls(_, _)
ChildUrls(i, n) ==
  IF n = 0 THEN <<>>
  ELSE IF attempts[n].parent = i
       THEN Append(ChildUrls(i, n - 1), attempts[n].url)
       ELSE ChildUrls(i, n - 1)

\* Seeds before organic links: no attempt for a link precedes an attempt of
\* the seed loop.
SeedsBeforeLinks ==
  \A i, j \in Attempts : IsLinkAttempt(i) /\ IsSeedAttempt(j) => j < i

\* Depth-first within a page: the links of a page are attempted in the
\* order of its link list, everything attempted between a page and one of
\* its links lies below that page, and everything below one link is
\* attempted before the next link is.
DepthFirstInLinkOrder ==
  \A i \in Attempts :
    LET kids == ChildUrls(i, Len(attempts))
        listed == SelectSeq(LinksOf(site, attempts[i].url), LinkFilter)
    IN /\ Len(kids) <= Len(listed)
       /\ kids = SubSeq(listed, 1, Len(kids))
       /\ \A k \in Children(i) :
            /\ i < k
            /\ \A m \in Attempts : i < m /\ m < k => Descends(m, i)
       /\ \A k1, k2 \in Children(i) :
            k1 < k2 => \A m \in Attempts : Descends(m, k1) => m < k2

\* C24: outcomes are recorded in the order the checks fire, every seed
\* before any link found on a page, and the links of a page in the order of
\* its link list, each with its whole subtree before the next.
C24_RecordingOrder == SeedsBeforeLinks /\ DepthFirstInLinkOrder

\* The positions of crawl() at which the page is being used: the coroutine
\* is suspended in an await of the navigation, the content read or the link
\* extraction.
Suspended(frame) == frame.pc \in {"goto", "content", "links"}

\* C25: only the innermost crawl() can be suspended on the page, its
\* callers wait in their link loops; a crawl() that appears has made its
\* checks and, on a pass, put its URL in visited_urls in that same step,
\* with its navigation not yet started; so no URL passes the checks twice
\* and url_to_content never holds more than max_pages entries.
C25_SingleFlight ==
  /\ [](/\ \A k \in DOMAIN stack : k < Len(stack) => stack[k].pc = "loop"
        /\ Cardinality({k \in DOMAIN stack : Suspended(stack[k])}) <= 1
        /\ \A k \in DOMAIN stack :
             stack[k].url \in visited_urls /\ attempts[stack[k].id].added
        /\ \A i, j \in Attempts :
             attempts[i].added /\ attempts[j].added /\ i # j =>
               attempts[i].url # attempts[j].url
        /\ Cardinality(DOMAIN url_to_content) <= max_pages)
  /\ [][Len(attempts') > Len(attempts) =>
          LET a == attempts'[Len(attempts')]
          IN /\ Len(attempts') = Len(attempts) + 1
             /\ a.seen = (a.url \in visited_urls)
             /\ a.nav = "none"
             /\ IF a.added
                THEN /\ ~a.seen
                     /\ visited_urls' = visited_urls \cup {a.url}
                     /\ stack'[Len(stack')].id = Len(attempts')
                     /\ stack'[Len(stack')].pc = "goto"
                ELSE /\ a.returned
                     /\ visited_urls' = visited_urls]_vars

\* A navigation in flight two levels down, its callers waiting in their
\* link loops, after a link to a URL already visited was turned away.
C25_Witness ==
  /\ Len(stack) = 3 /\ Top.pc = "goto"
  /\ Bucket("duplicate") # {}

C27_Terminates ==
  /\ <>(pc = "done" /\ stack = <<>>)
  /\ [](/\ \A i \in Attempts : attempts[i].depth <= max_depth + 1
        /\ Len(stack) <= max_depth + 1
        /\ \A i, j \in Attempts :
             attempts[i].url = attempts[j].url /\ attempts[i].added
               /\ attempts[j].added => i = j)

\* A finished crawl of the site with a cycle and self-links, in which a
\* navigation failed, a page at depth max_depth was opened and a link below
\* it was turned away.
C27_Witness ==
  /\ pc = "done" /\ stack = <<>> /\ site = Cycle
  /\ \E i \in Attempts : attempts[i].nav = "failed"
  /\ \E i \in Attempts : attempts[i].depth = max_depth /\ attempts[i].added
  /\ \E i \in Attempts : attempts[i].depth = max_depth + 1

PolicySkips ==
  {"max_limit_reached", "duplicate", "max_depth_exceeded", "domain_mismatch"}

\* Attempt j is the first attempt at the URL of attempt i after i.
NextAttemptAt(i, j) ==
  /\ i < j /\ attempts[j].url = attempts[i].url
  /\ \A m \in Attempts : i < m /\ m < j => attempts[m].url # attempts[i].url

AuthSkipsTracked ==
  \A r \in Range(auth.recs) :
    /\ r.reason \in DOMAIN metrics.skip_reasons
    /\ r.url \in Range(metrics.skip_reasons[r.reason])

\* C29 as stated: an authentication that returned success has recorded no
\* skip; the skips of the authentication step are recorded on failure only,
\* and against the login URL only.
C29_Original ==
  auth.ran =>
    /\ auth.success => auth.recs = <<>>
    /\ \A r \in Range(auth.recs) : ~auth.success /\ r.url = login_url

\* C29 amended: a failed authentication has recorded one skip, against the
\* login URL, with a login_failed or auth_error reason; a successful one has
\* recorded no skip, unless the navigation to the start URL failed after
\* the login: then it has recorded one navigation_error skip against the
\* start URL, which is not the login URL.
C29_AuthSkips ==
  auth.ran =>
    /\ AuthSkipsTracked
    /\ ~auth.success =>
         \E reason \in DOMAIN metrics.skip_reasons :
           /\ HasPrefix(reason, "login_failed") \/ HasPrefix(reason, "auth_error")
           /\ auth.recs = <<[url |-> login_url, reason |-> reason]>>
    /\ auth.success /\ auth.start # "failed" => auth.recs = <<>>
    /\ auth.success /\ auth.start = "failed" =>
         /\ url # login_url
         /\ \E reason \in DOMAIN metrics.skip_reasons :
              /\ HasPrefix(reason, "navigation_error")
              /\ auth.recs = <<[url |-> url, reason |-> reason]>>

\* A finished session after a successful login whose navigation to the
\* start URL failed: the start URL has a navigation_error skip from the
\* authentication step, and was crawled afterwards.
C29_Witness ==
  /\ pc = "done" /\ auth.success /\ auth.start = "failed"
  /\ Len(auth.recs) = 1 /\ auth.recs[1].url = url
  /\ url \in Crawled
  /\ metrics.pages_skipped >= 1

\* C30: in every state of a crawl pages_crawled is the number of keys of
\* url_to_content and crawled_urls lists each key once and nothing else, so
\* pages_crawled is at most max_pages; every key is in visited_urls.
C30_CrawledCount ==
  /\ metrics.pages_crawled = Cardinality(DOMAIN url_to_content)
  /\ Len(metrics.crawled_urls) = Cardinality(DOMAIN url_to_content)
  /\ Range(metrics.crawled_urls) = DOMAIN url_to_content
  /\ metrics.pages_crawled <= max_pages
  /\ DOMAIN url_to_content \subseteq visited_urls

\* The middle of a crawl that has stored as many pages as the budget
\* allows, three or more, with a visited URL that has no content and a skip
\* recorded.
C30_Witness ==
  /\ stack # <<>> /\ pc # "done"
  /\ metrics.pages_crawled = max_pages /\ max_pages >= 3
  /\ visited_urls # DOMAIN url_to_content
  /\ metrics.pages_skipped > 0
====
